---- MODULE Spec2Model ----
(***************************************************************************)
(* Model of ChartGenerator (src/charts.py): the stored Dataset and         *)
(* ColumnInfo, the two loaders, the chart-type classifier, the column      *)
(* selector, the code generator and the chart executor.                    *)
(*                                                                         *)
(* Python strings are sequences of one-character strings, so that          *)
(* str.lower, str.endswith and the \b...\b regular expressions are         *)
(* computed character by character.                                        *)
(***************************************************************************)
EXTENDS Integers, Sequences, FiniteSets, TLC

VARIABLES data, column_info, request, ret

vars == <<data, column_info, request, ret>>

\* ------------------------------------------------------------------ bounds
MaxWords == 2
MaxCols == 2
MaxRows == 1

\* ------------------------------------------------------- python strings
UpperLetters ==
    <<"A","B","C","D","E","F","G","H","I","J","K","L","M",
      "N","O","P","Q","R","S","T","U","V","W","X","Y","Z">>

LowerLetters ==
    <<"a","b","c","d","e","f","g","h","i","j","k","l","m",
      "n","o","p","q","r","s","t","u","v","w","x","y","z">>

Digits == {"0","1","2","3","4","5","6","7","8","9"}

Range(f) == {f[i] : i \in DOMAIN f}

Letters == 1..26

\* the characters \w of the re module matches
WordChars == Range(UpperLetters) \cup Range(LowerLetters) \cup Digits \cup {"_"}

IsWordChar(c) == c \in WordChars

LowerOf == [c \in Range(UpperLetters) |-> LowerLetters[CHOOSE i \in Letters : UpperLetters[i] = c]]

LowerChar(c) == IF c \in DOMAIN LowerOf THEN LowerOf[c] ELSE c

\* str.lower()
lower(s) == [i \in 1..Len(s) |-> LowerChar(s[i])]

\* str.endswith(suffix)
endswith(s, suffix) ==
    /\ Len(suffix) <= Len(s)
    /\ SubSeq(s, Len(s) - Len(suffix) + 1, Len(s)) = suffix

\* \b at position p: between s[p-1] and s[p] exactly one side is a word character
AtWordBoundary(s, p) ==
    LET before == p > 1 /\ IsWordChar(s[p - 1])
        after == p <= Len(s) /\ IsWordChar(s[p])
    IN before # after

\* re.search(r'\b(k1|k2|...)\b', s) is not None
re_search_word(alternatives, s) ==
    \E kw \in alternatives :
        \E i \in 1..(Len(s) - Len(kw) + 1) :
            /\ AtWordBoundary(s, i)
            /\ SubSeq(s, i, i + Len(kw) - 1) = kw
            /\ AtWordBoundary(s, i + Len(kw))

\* ------------------------------------------------------------ keywords
kw_pie == <<"p","i","e">>
kw_bar == <<"b","a","r">>
kw_column == <<"c","o","l","u","m","n">>
kw_line == <<"l","i","n","e">>
kw_trend == <<"t","r","e","n","d">>
kw_scatter == <<"s","c","a","t","t","e","r">>
kw_point == <<"p","o","i","n","t">>
kw_histogram == <<"h","i","s","t","o","g","r","a","m">>
kw_distribution == <<"d","i","s","t","r","i","b","u","t","i","o","n">>

suffix_csv == <<".","c","s","v">>
suffix_xls == <<".","x","l","s">>
suffix_xlsx == <<".","x","l","s","x">>

\* ------------------------------------------------------------- requests
\* The words a caller can put in a request; a request is up to MaxWords of
\* them joined by single spaces.
w_pie == kw_pie
w_PIE == <<"P","I","E">>
w_piece == <<"p","i","e","c","e">>
w_bar == kw_bar
w_column == kw_column
w_line == kw_line
w_trend == kw_trend
w_scatter == kw_scatter
w_point == kw_point
w_histogram == kw_histogram
w_distribution == kw_distribution
w_sales == <<"s","a","l","e","s">>
w_REGION == <<"R","E","G","I","O","N">>
w_units == <<"u","n","i","t","s">>
w_mens == <<"m","e","n","'","s">>

Words ==
    {w_pie, w_PIE, w_piece, w_bar, w_column, w_line, w_trend, w_scatter, w_point,
     w_histogram, w_distribution, w_sales, w_REGION, w_units, w_mens}

RECURSIVE JoinWords(_)
JoinWords(ws) ==
    IF Len(ws) = 0 THEN <<>>
    ELSE IF Len(ws) = 1 THEN ws[1]
    ELSE ws[1] \o <<" ">> \o JoinWords(Tail(ws))

Requests == UNION {{JoinWords(ws) : ws \in [1..n -> Words]} : n \in 0..MaxWords}

\* the requests made of a generator between loads: nothing or a single word
OneWordRequests == {<<>>} \cup Words

\* ------------------------------------------------------------- datasets
None == [tag |-> "None"]

col_Region == <<"R","e","g","i","o","n">>
col_Sales == <<"S","a","l","e","s">>
col_Units == <<"U","n","i","t","s">>

ColumnPool == {col_Region, col_Sales, col_Units}

\* the dtype pandas infers for the cells of each pool column
PoolDtype(col) == IF col = col_Region THEN "object" ELSE "int64"

PoolCell(col) == IF col = col_Region THEN "East" ELSE "10"

ColumnSeqs ==
    UNION {{cs \in [1..n -> ColumnPool] : \A i, j \in 1..n : i # j => cs[i] # cs[j]}
           : n \in 0..MaxCols}

\* a pandas DataFrame: ordered column labels, one Series per label, uniform length
MakeFrame(cs, n) ==
    [tag |-> "DataFrame",
     columns |-> cs,
     series |-> [c \in Range(cs) |->
                    [dtype |-> PoolDtype(c), values |-> [i \in 1..n |-> PoolCell(c)]]],
     nrows |-> n]

Frames ==
    {MakeFrame(cs, n) : cs \in {c \in ColumnSeqs : Len(c) > 0}, n \in 0..MaxRows}
    \cup {MakeFrame(<<>>, 0)}

\* ---------------------------------------------------------------- files
Corrupt == [tag |-> "Corrupt"]

name_csv == <<"d",".","c","s","v">>
name_xls == <<"d",".","x","l","s">>
name_xlsx == <<"d",".","x","l","s","x">>
name_txt == <<"d",".","t","x","t">>
name_CSV == <<"d",".","C","S","V">>

FileNames == {name_csv, name_xls, name_xlsx, name_txt, name_CSV}

\* a file: its name and what a matching parser would find in it
Files == [name : FileNames, content : Frames \cup {Corrupt}]

\* ------------------------------------------------------ results of calls
\* what the last call was given and what came of it: the file name of a load,
\* the chart type a chart call worked with, the returned value or the exception
NoRet ==
    [op |-> "none", file_name |-> <<>>, chart_type |-> "", status |-> "none",
     error |-> "", cause |-> "", value |-> <<>>]

Returned(op, name, t, v) ==
    [op |-> op, file_name |-> name, chart_type |-> t, status |-> "returned",
     error |-> "", cause |-> "", value |-> <<v>>]

\* an exception of class error leaves the call; cause is the class whose
\* message the error carries (load errors wrap the underlying exception)
Raised(op, name, t, error, cause) ==
    [op |-> op, file_name |-> name, chart_type |-> t, status |-> "raised",
     error |-> error, cause |-> cause, value |-> <<>>]

\* ------------------------------------------------------------- parsers
\* pd.read_csv: a file without a header line has "No columns to parse"
read_csv(content) ==
    IF content = Corrupt THEN [raised |-> TRUE, exc |-> "ParserError", frame |-> None]
    ELSE IF Len(content.columns) = 0
         THEN [raised |-> TRUE, exc |-> "EmptyDataError", frame |-> None]
    ELSE [raised |-> FALSE, exc |-> "", frame |-> content]

\* pd.read_excel: an empty sheet is an empty DataFrame
read_excel(content) ==
    IF content = Corrupt THEN [raised |-> TRUE, exc |-> "BadZipFile", frame |-> None]
    ELSE [raised |-> FALSE, exc |-> "", frame |-> content]

\* pd.api.types.is_numeric_dtype
is_numeric_dtype(dtype) == dtype \in {"int64", "float64", "bool"}

\* ------------------------------------------------------ ChartGenerator
EmptyInfo == [c \in {} |-> 0]

\* variant: an unset Dataset is analysed as a table without columns
analyze_columns_tolerant(d) ==
    IF d = None
    THEN [raised |-> FALSE, exc |-> "", column_info |-> EmptyInfo]
    ELSE [raised |-> FALSE, exc |-> "",
          column_info |->
              [col \in Range(d.columns) |->
                  [dtype |-> d.series[col].dtype,
                   sample |-> IF d.nrows > 0 THEN <<d.series[col].values[1]>> ELSE <<>>,
                   numeric |-> is_numeric_dtype(d.series[col].dtype)]]]

\* _analyze_columns: column_info is reset first, then filled from self.data;
\* on an unset Dataset the attribute access self.data.columns raises
_analyze_columns(d) ==
    IF d = None
    THEN [raised |-> TRUE, exc |-> "AttributeError", column_info |-> EmptyInfo]
    ELSE [raised |-> FALSE, exc |-> "",
          column_info |->
              [col \in Range(d.columns) |->
                  [dtype |-> d.series[col].dtype,
                   sample |-> IF d.nrows > 0 THEN <<d.series[col].values[1]>> ELSE <<>>,
                   numeric |-> is_numeric_dtype(d.series[col].dtype)]]]

\* variant: the Dataset is replaced but the columns are not analysed again
load_data_stale(d, ci, f) ==
    LET parsed ==
            IF endswith(f.name, suffix_csv) THEN read_csv(f.content)
            ELSE IF endswith(f.name, suffix_xls) \/ endswith(f.name, suffix_xlsx)
                 THEN read_excel(f.content)
            ELSE [raised |-> FALSE, exc |-> "", frame |-> d]
    IN  IF parsed.raised
        THEN [data |-> d, column_info |-> ci,
              ret |-> Raised("load_data", f.name, "", "ValueError", parsed.exc)]
        ELSE [data |-> parsed.frame, column_info |-> ci,
              ret |-> Returned("load_data", f.name, "", TRUE)]

\* variant: the Dataset is cleared before parsing, so a failed parse leaves it unset
load_data_clearing(d, ci, f) ==
    LET parsed ==
            IF endswith(f.name, suffix_csv) THEN read_csv(f.content)
            ELSE IF endswith(f.name, suffix_xls) \/ endswith(f.name, suffix_xlsx)
                 THEN read_excel(f.content)
            ELSE [raised |-> FALSE, exc |-> "", frame |-> None]
    IN  IF parsed.raised
        THEN [data |-> None, column_info |-> ci,
              ret |-> Raised("load_data", f.name, "", "ValueError", parsed.exc)]
        ELSE LET an == _analyze_columns(parsed.frame)
             IN  IF an.raised
                 THEN [data |-> parsed.frame, column_info |-> an.column_info,
                       ret |-> Raised("load_data", f.name, "", "ValueError", an.exc)]
                 ELSE [data |-> parsed.frame, column_info |-> an.column_info,
                       ret |-> Returned("load_data", f.name, "", TRUE)]

\* load_data: the state and the result after the call on file f
load_data(d, ci, f) ==
    LET parsed ==
            IF endswith(f.name, suffix_csv) THEN read_csv(f.content)
            ELSE IF endswith(f.name, suffix_xls) \/ endswith(f.name, suffix_xlsx)
                 THEN read_excel(f.content)
            ELSE [raised |-> FALSE, exc |-> "", frame |-> d]
    IN  IF parsed.raised
        THEN [data |-> d, column_info |-> ci,
              ret |-> Raised("load_data", f.name, "", "ValueError", parsed.exc)]
        ELSE LET an == _analyze_columns(parsed.frame)
             IN  IF an.raised
                 THEN [data |-> parsed.frame, column_info |-> an.column_info,
                       ret |-> Raised("load_data", f.name, "", "ValueError", an.exc)]
                 ELSE [data |-> parsed.frame, column_info |-> an.column_info,
                       ret |-> Returned("load_data", f.name, "", TRUE)]

\* load_data_from_upload: the same on an uploaded file object
load_data_from_upload(d, ci, f) ==
    LET parsed ==
            IF endswith(f.name, suffix_csv) THEN read_csv(f.content)
            ELSE IF endswith(f.name, suffix_xls) \/ endswith(f.name, suffix_xlsx)
                 THEN read_excel(f.content)
            ELSE [raised |-> FALSE, exc |-> "", frame |-> d]
    IN  IF parsed.raised
        THEN [data |-> d, column_info |-> ci,
              ret |-> Raised("load_data_from_upload", f.name, "", "ValueError", parsed.exc)]
        ELSE LET an == _analyze_columns(parsed.frame)
             IN  IF an.raised
                 THEN [data |-> parsed.frame, column_info |-> an.column_info,
                       ret |-> Raised("load_data_from_upload", f.name, "", "ValueError", an.exc)]
                 ELSE [data |-> parsed.frame, column_info |-> an.column_info,
                       ret |-> Returned("load_data_from_upload", f.name, "", TRUE)]

\* re.search(r'(k1|k2|...)', s) is not None: the keywords as plain substrings
re_search_sub(alternatives, s) ==
    \E kw \in alternatives :
        \E i \in 1..(Len(s) - Len(kw) + 1) : SubSeq(s, i, i + Len(kw) - 1) = kw

\* variant: the patterns lack the \b anchors
determine_chart_type_unanchored(req) ==
    LET r == lower(req)
    IN  IF re_search_sub({kw_pie}, r) THEN "pie"
        ELSE IF re_search_sub({kw_bar, kw_column}, r) THEN "bar"
        ELSE IF re_search_sub({kw_line, kw_trend}, r) THEN "line"
        ELSE IF re_search_sub({kw_scatter, kw_point}, r) THEN "scatter"
        ELSE IF re_search_sub({kw_histogram, kw_distribution}, r) THEN "histogram"
        ELSE "bar"

\* determine_chart_type
determine_chart_type(req) ==
    LET r == lower(req)
    IN  IF re_search_word({kw_pie}, r) THEN "pie"
        ELSE IF re_search_word({kw_bar, kw_column}, r) THEN "bar"
        ELSE IF re_search_word({kw_line, kw_trend}, r) THEN "line"
        ELSE IF re_search_word({kw_scatter, kw_point}, r) THEN "scatter"
        ELSE IF re_search_word({kw_histogram, kw_distribution}, r) THEN "histogram"
        ELSE "bar"

\* the subsequence of s whose elements satisfy Keep, in order
RECURSIVE SelectInOrder(_, _)
SelectInOrder(s, keep) ==
    IF Len(s) = 0 THEN <<>>
    ELSE IF Head(s) \in keep THEN <<Head(s)>> \o SelectInOrder(Tail(s), keep)
    ELSE SelectInOrder(Tail(s), keep)

\* variant: with two columns mentioned, y is still the first numeric column
extract_columns_numeric_y(d, ci, req) ==
    LET found_cols ==
            SelectInOrder(d.columns,
                {col \in Range(d.columns) : re_search_word({lower(col)}, lower(req))})
        numeric_cols ==
            SelectInOrder(d.columns, {col \in Range(d.columns) : ci[col].numeric})
        pair(x, y) == [raised |-> FALSE, exc |-> "", x |-> x, y |-> y]
        index_error == [raised |-> TRUE, exc |-> "IndexError", x |-> <<>>, y |-> <<>>]
    IN  IF d = None
        THEN [raised |-> TRUE, exc |-> "AttributeError", x |-> <<>>, y |-> <<>>]
        ELSE IF Len(found_cols) >= 1
             THEN pair(found_cols[1],
                       IF Len(numeric_cols) > 0 THEN numeric_cols[1]
                       ELSE found_cols[Len(found_cols)])
        ELSE IF Len(numeric_cols) >= 2 THEN pair(d.columns[1], numeric_cols[1])
        ELSE IF Len(d.columns) = 0 THEN index_error
        ELSE pair(d.columns[1],
                  IF Len(d.columns) > 1 THEN d.columns[2] ELSE d.columns[1])

\* variant: with one column mentioned, y is looked for among the other columns
extract_columns_other_y(d, ci, req) ==
    LET found_cols ==
            SelectInOrder(d.columns,
                {col \in Range(d.columns) : re_search_word({lower(col)}, lower(req))})
        numeric_cols ==
            SelectInOrder(d.columns, {col \in Range(d.columns) : ci[col].numeric})
        other_numeric ==
            SelectInOrder(numeric_cols, Range(numeric_cols) \ Range(found_cols))
        pair(x, y) == [raised |-> FALSE, exc |-> "", x |-> x, y |-> y]
        index_error == [raised |-> TRUE, exc |-> "IndexError", x |-> <<>>, y |-> <<>>]
    IN  IF d = None
        THEN [raised |-> TRUE, exc |-> "AttributeError", x |-> <<>>, y |-> <<>>]
        ELSE IF Len(found_cols) >= 2 THEN pair(found_cols[1], found_cols[2])
        ELSE IF Len(found_cols) = 1
             THEN pair(found_cols[1],
                       IF Len(other_numeric) > 0 THEN other_numeric[1] ELSE found_cols[1])
        ELSE IF Len(numeric_cols) >= 2 THEN pair(d.columns[1], numeric_cols[1])
        ELSE IF Len(d.columns) = 0 THEN index_error
        ELSE pair(d.columns[1],
                  IF Len(d.columns) > 1 THEN d.columns[2] ELSE d.columns[1])

\* extract_columns: [raised, exc, x, y]
extract_columns(d, ci, req) ==
    LET found_cols ==
            SelectInOrder(d.columns,
                {col \in Range(d.columns) : re_search_word({lower(col)}, lower(req))})
        numeric_cols ==
            SelectInOrder(d.columns, {col \in Range(d.columns) : ci[col].numeric})
        pair(x, y) == [raised |-> FALSE, exc |-> "", x |-> x, y |-> y]
        index_error == [raised |-> TRUE, exc |-> "IndexError", x |-> <<>>, y |-> <<>>]
    IN  IF d = None
        THEN [raised |-> TRUE, exc |-> "AttributeError", x |-> <<>>, y |-> <<>>]
        ELSE IF Len(found_cols) >= 2 THEN pair(found_cols[1], found_cols[2])
        ELSE IF Len(found_cols) = 1
             THEN pair(found_cols[1],
                       IF Len(numeric_cols) > 0 THEN numeric_cols[1] ELSE found_cols[1])
        ELSE IF Len(numeric_cols) >= 2 THEN pair(d.columns[1], numeric_cols[1])
        ELSE IF Len(d.columns) = 0 THEN index_error
        ELSE pair(d.columns[1],
                  IF Len(d.columns) > 1 THEN d.columns[2] ELSE d.columns[1])

Templates == {"bar", "pie", "line"}

ChartTypes == {"bar", "pie", "line", "scatter", "histogram"}

\* generate_chart_code: [raised, exc, code]; the code is the chosen template
\* with its placeholders filled
generate_chart_code(d, ci, chart_type, req) ==
    LET cols == extract_columns(d, ci, req)
    IN  IF cols.raised THEN [raised |-> TRUE, exc |-> cols.exc, code |-> <<>>]
        ELSE IF chart_type \notin Templates
             THEN [raised |-> TRUE, exc |-> "KeyError", code |-> <<>>]
        ELSE [raised |-> FALSE, exc |-> "",
              code |-> [template |-> chart_type, x |-> cols.x, y |-> cols.y,
                        title |-> req, x_label |-> cols.x, y_label |-> cols.y]]

\* a quote inside the text substituted between the quotes of a template's
\* string literal ends the literal early
BreaksLiteral(text) == \E i \in 1..Len(text) : text[i] = "'"

\* exec(code, globals(), local_vars) followed by local_vars.get('fig'):
\* the text is compiled, then the plotting calls run on the Dataset
exec(code, d) ==
    IF BreaksLiteral(code.x) \/ BreaksLiteral(code.y) \/ BreaksLiteral(code.title)
    THEN [raised |-> TRUE, exc |-> "SyntaxError", fig |-> <<>>]
    ELSE IF code.template = "pie"
            /\ (d.nrows = 0 \/ ~is_numeric_dtype(d.series[code.y].dtype))
         THEN [raised |-> TRUE, exc |-> "TypeError", fig |-> <<>>]
    ELSE [raised |-> FALSE, exc |-> "",
          fig |-> [tag |-> "Figure", kind |-> code.template, x |-> code.x, y |-> code.y]]

NoDataMessage == "No data loaded. Please load data first."

\* variant: the check for an unset Dataset is missing
generate_chart_unguarded(d, ci, req) ==
    LET chart_type == determine_chart_type(req)
        gen == generate_chart_code(d, ci, chart_type, req)
    IN  IF gen.raised THEN Raised("generate_chart", <<>>, chart_type, gen.exc, "")
        ELSE LET run == exec(gen.code, d)
             IN  IF run.raised THEN Raised("generate_chart", <<>>, chart_type, run.exc, "")
                 ELSE Returned("generate_chart", <<>>, chart_type, run.fig)

\* generate_chart: the result of the call
generate_chart(d, ci, req) ==
    IF d = None THEN Raised("generate_chart", <<>>, "", "ValueError", NoDataMessage)
    ELSE LET chart_type == determine_chart_type(req)
             gen == generate_chart_code(d, ci, chart_type, req)
         IN  IF gen.raised THEN Raised("generate_chart", <<>>, chart_type, gen.exc, "")
             ELSE LET run == exec(gen.code, d)
                  IN  IF run.raised THEN Raised("generate_chart", <<>>, chart_type, run.exc, "")
                      ELSE Returned("generate_chart", <<>>, chart_type, run.fig)

\* -------------------------------------------------------------- actions
\* generator.load_data(f)
LoadData(f) ==
    LET r == load_data(data, column_info, f)
    IN  /\ data' = r.data
        /\ column_info' = r.column_info
        /\ ret' = r.ret
        /\ UNCHANGED request

\* generator.load_data_from_upload(f)
LoadDataFromUpload(f) ==
    LET r == load_data_from_upload(data, column_info, f)
    IN  /\ data' = r.data
        /\ column_info' = r.column_info
        /\ ret' = r.ret
        /\ UNCHANGED request

\* generator.generate_chart(req)
GenerateChart(req) ==
    /\ ret' = generate_chart(data, column_info, req)
    /\ UNCHANGED <<data, column_info, request>>

\* generator.determine_chart_type(request)
DetermineChartType ==
    /\ ret' = Returned("determine_chart_type", <<>>, "", determine_chart_type(request))
    /\ UNCHANGED <<data, column_info, request>>

\* generator.extract_columns(request)
ExtractColumns ==
    LET r == extract_columns(data, column_info, request)
    IN  /\ ret' = IF r.raised THEN Raised("extract_columns", <<>>, "", r.exc, "")
                  ELSE Returned("extract_columns", <<>>, "", <<r.x, r.y>>)
        /\ UNCHANGED <<data, column_info, request>>

\* generator.generate_chart_code(t, request)
GenerateChartCode(t) ==
    LET r == generate_chart_code(data, column_info, t, request)
    IN  /\ ret' = IF r.raised THEN Raised("generate_chart_code", <<>>, t, r.exc, "")
                  ELSE Returned("generate_chart_code", <<>>, t, r.code)
        /\ UNCHANGED <<data, column_info, request>>

\* ------------------------------------------------------- specifications
\* A generator from construction on: loads and chart requests in any order.
Init ==
    /\ data = None
    /\ column_info = EmptyInfo
    /\ request = <<>>
    /\ ret = NoRet

Next ==
    \/ \E f \in Files : LoadData(f)
    \/ \E f \in Files : LoadDataFromUpload(f)
    \/ \E req \in OneWordRequests : GenerateChart(req)

Spec == Init /\ [][Next]_vars

\* The classifier applied to every request.
InitClassify ==
    /\ data = None
    /\ column_info = EmptyInfo
    /\ request \in Requests
    /\ ret = NoRet

NextClassify == DetermineChartType

SpecClassify == InitClassify /\ [][NextClassify]_vars

\* A generator holding a loaded Dataset and its ColumnInfo, and a request.
InitLoaded ==
    /\ data \in Frames
    /\ column_info = _analyze_columns(data).column_info
    /\ request \in Requests
    /\ ret = NoRet

\* The column selector applied to every loaded Dataset and request.
NextSelect == ExtractColumns

SpecSelect == InitLoaded /\ [][NextSelect]_vars

\* The code generator applied to every loaded Dataset, chart type and request.
NextCode == \E t \in ChartTypes : GenerateChartCode(t)

SpecCode == InitLoaded /\ [][NextCode]_vars

\* ---------------------------------------------------- words of a text
\* Whole-word occurrence, stated on the words of the text rather than on
\* positions of a pattern: the maximal runs of word characters.
RECURSIVE RunEnd(_, _)
RunEnd(s, i) == IF i = Len(s) \/ ~IsWordChar(s[i + 1]) THEN i ELSE RunEnd(s, i + 1)

WordRuns(s) ==
    {SubSeq(s, i, RunEnd(s, i)) :
        i \in {k \in 1..Len(s) : IsWordChar(s[k]) /\ (k = 1 \/ ~IsWordChar(s[k - 1]))}}

\* the word occurs in the text as a whole word, whatever the case
OccursAsWord(word, text) == lower(word) \in WordRuns(lower(text))

\* positions of the Dataset's columns named in the request as whole words
MentionedAt(d, req) == {i \in 1..Len(d.columns) : OccursAsWord(d.columns[i], req)}

\* positions of the Dataset's numeric columns
NumericAt(d) == {i \in 1..Len(d.columns) : is_numeric_dtype(d.series[d.columns[i]].dtype)}

Min(S) == CHOOSE m \in S : \A n \in S : m <= n

LoadOps == {"load_data", "load_data_from_upload"}

ParseErrors == {"ParserError", "EmptyDataError", "BadZipFile"}

Unrecognized(name) ==
    /\ ~endswith(name, suffix_csv)
    /\ ~endswith(name, suffix_xls)
    /\ ~endswith(name, suffix_xlsx)

\* --------------------------------------------------------------- claims

\* C1: in every reachable state ColumnInfo is the analysis of the stored
\* Dataset: empty when the Dataset is unset, otherwise keyed by exactly the
\* Dataset's columns, each entry holding that column's dtype, numeric flag
\* and first value.
C1_ColumnInfoOfCurrentDataset ==
    IF data = None THEN column_info = EmptyInfo
    ELSE /\ DOMAIN column_info = Range(data.columns)
         /\ \A c \in Range(data.columns) :
                /\ column_info[c].dtype = data.series[c].dtype
                /\ column_info[c].numeric = (data.series[c].dtype # "object")
                /\ column_info[c].sample =
                       SubSeq(data.series[c].values, 1, IF data.nrows = 0 THEN 0 ELSE 1)

\* a load through the upload path has returned and ColumnInfo is not empty
C1_Witness ==
    /\ data # None
    /\ column_info # EmptyInfo
    /\ ret.op = "load_data_from_upload"
    /\ ret.status = "returned"

\* C2 as claimed: after a load that fails in the parser, the call has raised
\* the load error carrying the cause and the Dataset is unset.
C2_UnsetAfterParseFailure ==
    (ret.op \in LoadOps /\ ret.status = "raised" /\ ret.cause \in ParseErrors)
        => (ret.error = "ValueError" /\ data = None)

\* C2 amended: a load that fails in the parser raises the load error carrying
\* the cause and leaves Dataset and ColumnInfo as they were before the call.
C2_UnchangedByParseFailure ==
    [][(ret'.op \in LoadOps /\ ret'.status = "raised" /\ ret'.cause \in ParseErrors)
          => (ret'.error = "ValueError" /\ data' = data /\ column_info' = column_info)]_vars

\* a parse failure of load_data on a generator that holds a Dataset
C2_Witness ==
    /\ data # None
    /\ ret.op = "load_data"
    /\ ret.status = "raised"
    /\ ret.cause \in ParseErrors

\* C3 as claimed: a load of a file with an unrecognized suffix returns without
\* raising and the Dataset is unset afterwards, whatever the state before.
C3_SilentNoOp ==
    [][(ret'.op \in LoadOps /\ Unrecognized(ret'.file_name))
          => (ret'.status = "returned" /\ data' = None)]_vars

\* C3 amended: a load of a file with an unrecognized suffix never changes the
\* Dataset or ColumnInfo; on an unset Dataset it raises the load error (the
\* analysis of the unset Dataset fails), on a loaded Dataset it returns.
C3_UnrecognizedSuffix ==
    [][(ret'.op \in LoadOps /\ Unrecognized(ret'.file_name))
          => /\ data' = data
             /\ column_info' = column_info
             /\ data = None =>
                    /\ ret'.status = "raised"
                    /\ ret'.error = "ValueError"
                    /\ ret'.cause = "AttributeError"
             /\ data # None => ret'.status = "returned"]_vars

\* a load that raised out of the column analysis, the Dataset still unset
C3_Witness ==
    /\ data = None
    /\ ret.op \in LoadOps
    /\ Unrecognized(ret.file_name)
    /\ ret.status = "raised"
    /\ ret.cause = "AttributeError"

\* C4: generate_chart on an unset Dataset raises the no-data error, returns no
\* figure and changes neither Dataset nor ColumnInfo; and whenever
\* generate_chart has returned a figure the Dataset is set.
C4_NoDataError ==
    /\ [][(data = None /\ ret'.op = "generate_chart")
             => /\ ret'.status = "raised"
                /\ ret'.error = "ValueError"
                /\ ret'.cause = NoDataMessage
                /\ ret'.value = <<>>
                /\ data' = data
                /\ column_info' = column_info]_vars
    /\ []((ret.op = "generate_chart" /\ ret.status = "returned") => data # None)

\* generate_chart has raised the no-data error on an unset Dataset
C4_Witness ==
    /\ data = None
    /\ ret.op = "generate_chart"
    /\ ret.cause = NoDataMessage

\* C5 as claimed: on a loaded Dataset generate_chart_code returns for bar, pie
\* and line and raises the unsupported-type error for scatter and histogram.
C5_TemplatesOnly ==
    (data # None /\ ret.op = "generate_chart_code")
        => /\ ret.chart_type \in {"bar", "pie", "line"} => ret.status = "returned"
           /\ ret.chart_type \in {"scatter", "histogram"} =>
                  (ret.status = "raised" /\ ret.error = "KeyError")

\* C6: determine_chart_type returns the type of the first rule, in the order
\* pie, bar/column, line/trend, scatter/point, histogram/distribution, one of
\* whose keywords is a word of the request (case ignored), and bar when no
\* rule has one.
C6_Rules ==
    <<[keywords |-> {kw_pie}, type |-> "pie"],
      [keywords |-> {kw_bar, kw_column}, type |-> "bar"],
      [keywords |-> {kw_line, kw_trend}, type |-> "line"],
      [keywords |-> {kw_scatter, kw_point}, type |-> "scatter"],
      [keywords |-> {kw_histogram, kw_distribution}, type |-> "histogram"]>>

C6_FirstMatchingRule ==
    ret.op = "determine_chart_type"
        => LET matching ==
                   {i \in DOMAIN C6_Rules :
                       \E kw \in C6_Rules[i].keywords : OccursAsWord(kw, request)}
           IN  /\ ret.status = "returned"
               /\ ret.value =
                      <<IF matching = {} THEN "bar" ELSE C6_Rules[Min(matching)].type>>

\* "piece line" is classified line: pie inside piece does not count
C6_Witness ==
    /\ ret.op = "determine_chart_type"
    /\ request = w_piece \o <<" ">> \o w_line
    /\ ret.value = <<"line">>

\* C7 as claimed: with exactly one column mentioned, x is that column and y is
\* the first numeric column other than x, or x when there is none.
C7_FirstOtherNumeric ==
    (ret.op = "extract_columns" /\ Cardinality(MentionedAt(data, request)) = 1)
        => LET m == Min(MentionedAt(data, request))
               others == NumericAt(data) \ {m}
           IN  /\ ret.status = "returned"
               /\ ret.value =
                      <<<<data.columns[m],
                          data.columns[IF others = {} THEN m ELSE Min(others)]>>>>

\* C7 amended: with exactly one column mentioned, x is that column and y is
\* the first numeric column of the Dataset, which may be x itself, or x when
\* the Dataset has no numeric column.
C7_FirstNumeric ==
    (ret.op = "extract_columns" /\ Cardinality(MentionedAt(data, request)) = 1)
        => LET m == Min(MentionedAt(data, request))
           IN  /\ ret.status = "returned"
               /\ ret.value =
                      <<<<data.columns[m],
                          data.columns[IF NumericAt(data) = {} THEN m
                                       ELSE Min(NumericAt(data))]>>>>

\* only Sales is mentioned, Units is numeric too, and y is Sales again
C7_Witness ==
    /\ ret.op = "extract_columns"
    /\ data # None
    /\ data.columns = <<col_Sales, col_Units>>
    /\ MentionedAt(data, request) = {1}
    /\ ret.value = <<<<col_Sales, col_Sales>>>>

\* C8 as claimed: on a Dataset of zero or one column extract_columns returns,
\* and with one column x and y are that column.
C8_FewColumns ==
    (ret.op = "extract_columns" /\ Len(data.columns) <= 1)
        => /\ ret.status = "returned"
           /\ Len(data.columns) = 1 =>
                  ret.value = <<<<data.columns[1], data.columns[1]>>>>

\* C9: with two or more columns mentioned, (x, y) are the two mentioned
\* columns that come first in the Dataset's column order.
C9_FirstTwoMentioned ==
    (ret.op = "extract_columns" /\ Cardinality(MentionedAt(data, request)) >= 2)
        => LET first == Min(MentionedAt(data, request))
               second == Min(MentionedAt(data, request) \ {first})
           IN  /\ ret.status = "returned"
               /\ ret.value = <<<<data.columns[first], data.columns[second]>>>>

\* the request names Region before Sales, the Dataset holds Sales before
\* Region, and (x, y) is (Sales, Region): Dataset order, y not numeric
C9_Witness ==
    /\ ret.op = "extract_columns"
    /\ data # None
    /\ data.columns = <<col_Sales, col_Region>>
    /\ request = w_REGION \o <<" ">> \o w_sales
    /\ ret.value = <<<<col_Sales, col_Region>>>>

\* C10 as claimed: on a Dataset with at least one row and one column,
\* generate_chart on a request classified bar, pie or line returns a figure.
C10_FigureForTemplates ==
    (/\ ret.op = "generate_chart"
     /\ data # None
     /\ data.nrows >= 1
     /\ Len(data.columns) >= 1
     /\ ret.chart_type \in {"bar", "pie", "line"})
        => (ret.status = "returned" /\ ret.value # <<>>)

====
